---- MODULE Spec2Model ----
(***************************************************************************)
(* Model of the YouTube Tools API (src/main.py): video-id extraction from  *)
(* a URL, and the three request handlers (video data, captions,            *)
(* timestamps) with their single outbound call.                            *)
(*                                                                         *)
(* Text is modelled as a sequence of tokens.  A token is either one        *)
(* delimiter character (":" "/" "?" "#" "&" "=" "@" "[" "]") or a word: a   *)
(* maximal run of characters that are not delimiters.  "https://youtu.be/x"*)
(* is <<"https", ":", "/", "/", "youtu.be", "/", "x">>.                     *)
(***************************************************************************)
EXTENDS Integers, Sequences, FiniteSets, TLC

(* ------------------------------ bounds --------------------------------- *)
MaxSegs == 2      \* path segments of a URL given to the extraction
MaxPairs == 1     \* name=value pairs in the query of such a URL
MaxLines == 2     \* caption lines returned by the transcript source

(* --------------------------- Python values ----------------------------- *)
\* Optional[str] / Optional[List[str]]: None, or a value
None == [some |-> FALSE, val |-> <<>>]
Some(x) == [some |-> TRUE, val |-> x]
\* Python truthiness of an Optional sequence: None and the empty one are falsy
Truthy(o) == o.some /\ o.val # <<>>

\* The value of a local variable is computed once where it is assigned: a
\* definition that uses one several times is written as the image of a
\* one-element set, CHOOSE r \in {F(x) : x \in {e}} : TRUE, which is F(e).

(* ---------------------------- text helpers ----------------------------- *)
\* str.find: index of the first occurrence of token d in s, 0 when absent
Find(s, d) ==
    IF \E i \in 1..Len(s) : s[i] = d
    THEN CHOOSE i \in 1..Len(s) : s[i] = d /\ \A j \in 1..(i-1) : s[j] # d
    ELSE 0

\* index of the first token of s that is in the set D, 0 when absent
FindAny(s, D) ==
    IF \E i \in 1..Len(s) : s[i] \in D
    THEN CHOOSE i \in 1..Len(s) : s[i] \in D /\ \A j \in 1..(i-1) : s[j] \notin D
    ELSE 0

\* index of the last occurrence of token d in s, 0 when absent
RFind(s, d) ==
    IF \E i \in 1..Len(s) : s[i] = d
    THEN CHOOSE i \in 1..Len(s) : s[i] = d /\ \A j \in (i+1)..Len(s) : s[j] # d
    ELSE 0

\* s[k:] of Python, k counted from 0
From(s, k) == SubSeq(s, k + 1, Len(s))

\* str.split(d): the pieces of s between occurrences of d
RECURSIVE Split(_, _)
Split(s, d) ==
    LET i == Find(s, d)
    IN  IF i = 0 THEN <<s>>
        ELSE <<SubSeq(s, 1, i - 1)>> \o Split(From(s, i), d)

\* str.lower on a word
Lower(w) ==
    CASE w = "YouTube.com" -> "youtube.com"
      [] OTHER -> w

LowerAll(s) == [i \in 1..Len(s) |-> Lower(s[i])]

\* urllib.parse.unquote after replace('+', ' '), on a word
Unquote(w) ==
    CASE w = "a%2Db" -> "a-b"
      [] OTHER -> w

UnquoteAll(s) == [i \in 1..Len(s) |-> Unquote(s[i])]

(* ------------------------- urllib.parse.urlparse ----------------------- *)
\* words made only of scheme characters (letters, digits, "+", "-", ".")
IsSchemeWord(w) == w \in {"https", "http", "youtu.be", "youtube.com",
                          "www.youtube.com", "m.youtube.com", "example.com",
                          "YouTube.com"}

\* urlsplit: scheme, netloc, path, query, fragment; raises ValueError on an
\* unbalanced bracket in the netloc
urlparse(url) ==
    LET hasScheme == Len(url) >= 2 /\ url[2] = ":" /\ IsSchemeWord(url[1])
        scheme    == IF hasScheme THEN <<Lower(url[1])>> ELSE <<>>
        r1        == IF hasScheme THEN From(url, 2) ELSE url
        hasNetloc == Len(r1) >= 2 /\ r1[1] = "/" /\ r1[2] = "/"
        r1b       == From(r1, 2)
        nEnd      == FindAny(r1b, {"/", "?", "#"})
        netloc    == IF ~hasNetloc THEN <<>>
                     ELSE IF nEnd = 0 THEN r1b ELSE SubSeq(r1b, 1, nEnd - 1)
        r2        == IF ~hasNetloc THEN r1
                     ELSE IF nEnd = 0 THEN <<>> ELSE From(r1b, nEnd - 1)
        hashAt    == Find(r2, "#")
        fragment  == IF hashAt = 0 THEN <<>> ELSE From(r2, hashAt)
        r3        == IF hashAt = 0 THEN r2 ELSE SubSeq(r2, 1, hashAt - 1)
        qAt       == Find(r3, "?")
        query     == IF qAt = 0 THEN <<>> ELSE From(r3, qAt)
        path      == IF qAt = 0 THEN r3 ELSE SubSeq(r3, 1, qAt - 1)
        badBr     == (Find(netloc, "[") # 0) # (Find(netloc, "]") # 0)
    IN  [raises |-> hasNetloc /\ badBr, scheme |-> scheme, netloc |-> netloc,
         path |-> path, query |-> query, fragment |-> fragment]

\* ParseResult.hostname: netloc without userinfo and port, lower-cased;
\* None when empty
hostname(parsed) ==
    LET at       == RFind(parsed.netloc, "@")
        hostinfo == From(parsed.netloc, at)
        openBr   == Find(hostinfo, "[")
        bracketed == From(hostinfo, openBr)
        closeBr  == Find(bracketed, "]")
        colon    == Find(hostinfo, ":")
        h        == IF openBr # 0
                    THEN (IF closeBr = 0 THEN bracketed
                          ELSE SubSeq(bracketed, 1, closeBr - 1))
                    ELSE (IF colon = 0 THEN hostinfo
                          ELSE SubSeq(hostinfo, 1, colon - 1))
    IN  IF h = <<>> THEN None ELSE Some(LowerAll(h))

\* urllib.parse.parse_qs restricted to one name: the list of decoded,
\* non-blank values of the pairs called name, in order
RECURSIVE ValuesOf(_, _)
ValuesOf(pairs, name) ==
    IF pairs = <<>> THEN <<>>
    ELSE LET nv == Head(pairs)
             eq == Find(nv, "=")
             n  == UnquoteAll(SubSeq(nv, 1, eq - 1))
             v  == UnquoteAll(From(nv, eq))
         IN  (IF nv # <<>> /\ eq # 0 /\ v # <<>> /\ n = name
              THEN <<v>> ELSE <<>>) \o ValuesOf(Tail(pairs), name)

parse_qs_get(query, name) ==
    LET vals == ValuesOf(Split(query, "&"), name)
    IN  IF vals = <<>> THEN None ELSE Some(vals[1])

(* ------------------------- get_youtube_video_id ------------------------ *)
\* an index slip: the token before the identifier
PathToken_off_by_one(path) == Split(path, "/")[2]

\* path.split("/")[2] (Python counts from 0)
PathToken(path) == Split(path, "/")[3]

StartsWith(s, p) == Len(s) >= Len(p) /\ SubSeq(s, 1, Len(p)) = p

\* a host list that also takes the mobile site
YoutubeHosts_with_mobile ==
    {<<"www.youtube.com">>, <<"youtube.com">>, <<"m.youtube.com">>}

\* line 82
YoutubeHosts == {<<"www.youtube.com">>, <<"youtube.com">>}

\* lines 80-90, given the parsed URL and its hostname
VideoIdOf(parsed, host) ==
    IF host = Some(<<"youtu.be">>) THEN Some(From(parsed.path, 1))
    ELSE IF host.some /\ host.val \in YoutubeHosts THEN
        IF parsed.path = <<"/", "watch">>
            THEN parse_qs_get(parsed.query, <<"v">>)
        ELSE IF StartsWith(parsed.path, <<"/", "embed", "/">>)
            THEN Some(PathToken(parsed.path))
        ELSE IF StartsWith(parsed.path, <<"/", "v", "/">>)
            THEN Some(PathToken(parsed.path))
        ELSE None
    ELSE None

\* lines 78-90, given the parsed URL
VideoIdOfParsed(parsed) ==
    IF parsed.raises THEN [raises |-> TRUE, value |-> None]
    ELSE [raises |-> FALSE, value |->
            CHOOSE v \in {VideoIdOf(parsed, host) : host \in {hostname(parsed)}} :
                TRUE]

\* [raises, value]: value is the Optional[str] the function returns
get_youtube_video_id(url) ==
    CHOOSE r \in {VideoIdOfParsed(parsed) : parsed \in {urlparse(url)}} : TRUE

(* ------------------------------ URL inputs ----------------------------- *)
VideoIds == {"dQw4w9WgXcQ"}
Words == VideoIds \cup {"watch", "embed", "v"}
Segs == {<<>>} \cup {<<w>> : w \in Words}

RECURSIVE PathsOf(_)
PathsOf(n) ==
    IF n = 0 THEN {<<>>}
    ELSE PathsOf(n - 1) \cup
         {p \o <<"/">> \o s : p \in PathsOf(n - 1), s \in Segs}

Pairs == {<<"v", "=", "dQw4w9WgXcQ">>, <<"v", "=">>, <<"v">>,
          <<"t", "=", "dQw4w9WgXcQ">>, <<"v", "=", "a%2Db">>}

RECURSIVE QueriesOf(_)
QueriesOf(n) ==
    IF n = 0 THEN {<<>>}
    ELSE QueriesOf(n - 1) \cup
         {IF q = <<>> THEN <<"?">> \o p ELSE q \o <<"&">> \o p :
             q \in QueriesOf(n - 1), p \in Pairs}

\* the part after the path: a query, and in two cases a fragment
Tails == QueriesOf(MaxPairs) \cup
         {<<"#", "t">>, <<"?", "v", "=", "dQw4w9WgXcQ", "#", "t">>}
Prefixes == {<<>>, <<"https", ":", "/", "/">>}
Netlocs == {<<"youtu.be">>, <<"youtube.com">>, <<"www.youtube.com">>,
            <<"YouTube.com">>, <<"m.youtube.com">>, <<"example.com">>,
            <<"youtu.be", ":", "443">>, <<"[">>}

\* the URLs the extraction is applied to on its own
Urls == {<<>>} \cup
        {pre \o n \o p \o t :
            pre \in Prefixes, n \in Netlocs, p \in PathsOf(MaxSegs),
            t \in Tails}

\* the URLs of the requests: the four shapes, and the ways to have no
\* identifier (empty, no scheme, other host, no v, blank v, other path,
\* empty identifier, unbalanced bracket)
RequestUrls ==
    {<<>>,
     <<"https", ":", "/", "/", "youtu.be", "/", "dQw4w9WgXcQ">>,
     <<"https", ":", "/", "/", "youtu.be", ":", "443", "/", "dQw4w9WgXcQ">>,
     <<"https", ":", "/", "/", "youtube.com", "/", "watch", "?", "v", "=", "dQw4w9WgXcQ">>,
     <<"https", ":", "/", "/", "www.youtube.com", "/", "watch", "?", "v", "=", "dQw4w9WgXcQ">>,
     <<"https", ":", "/", "/", "YouTube.com", "/", "watch", "?", "v", "=", "dQw4w9WgXcQ">>,
     <<"https", ":", "/", "/", "www.youtube.com", "/", "embed", "/", "dQw4w9WgXcQ">>,
     <<"https", ":", "/", "/", "youtube.com", "/", "v", "/", "dQw4w9WgXcQ">>,
     <<"youtu.be", "/", "dQw4w9WgXcQ">>,
     <<"https", ":", "/", "/", "m.youtube.com", "/", "watch", "?", "v", "=", "dQw4w9WgXcQ">>,
     <<"https", ":", "/", "/", "example.com", "/", "watch", "?", "v", "=", "dQw4w9WgXcQ">>,
     <<"https", ":", "/", "/", "www.youtube.com", "/", "watch">>,
     <<"https", ":", "/", "/", "www.youtube.com", "/", "watch", "?", "v", "=">>,
     <<"https", ":", "/", "/", "www.youtube.com", "/", "watch", "?", "t", "=", "dQw4w9WgXcQ">>,
     <<"https", ":", "/", "/", "www.youtube.com", "/", "dQw4w9WgXcQ">>,
     <<"https", ":", "/", "/", "www.youtube.com", "/", "embed", "/">>,
     <<"https", ":", "/", "/", "youtu.be", "/">>,
     <<"https", ":", "/", "/", "[", "/", "watch", "?", "v", "=", "dQw4w9WgXcQ">>}

(* ------------------------------ exceptions ----------------------------- *)
Exc(cls, msg) == [cls |-> cls, msg |-> msg]

\* classes derived from Exception, the ones an `except Exception` catches;
\* fastapi.HTTPException is one of them
ExceptionClasses == {"HTTPException", "ValueError", "URLError", "HTTPError",
                     "JSONDecodeError", "AttributeError", "KeyError",
                     "TranscriptsDisabled", "NoTranscriptFound"}

IsException(cls) == cls \in ExceptionClasses

(* ------------------------------- responses ----------------------------- *)
\* what the HTTP layer sends: a status, the detail of an error (the pieces
\* of the formatted message, in order) and the body of a success
HTTPException(status, detail) ==
    [status |-> status, detail |-> detail, body |-> <<>>]

Success(value) == [status |-> 200, detail |-> <<>>, body |-> value]

NoResponse == [status |-> 0, detail |-> <<>>, body |-> <<>>]

(* ------------- lines 95-103 / 133-141 / 159-167: resolve the id --------- *)
\* the try block without the check of line 100
TryExtract_unchecked(r) ==
    IF r.raises
    THEN [raised |-> TRUE, cls |-> "ValueError",
          error |-> HTTPException(0, <<"Invalid IPv6 URL">>),
          video_id |-> None]
    ELSE [raised |-> FALSE, cls |-> "", error |-> NoResponse,
          video_id |-> r.value]

\* lines 99-101, the body of the try block, given what the extraction of
\* line 99 did: the ValueError of urlparse, the HTTPException of line 101,
\* or the identifier
TryExtract(r) ==
    IF r.raises
    THEN [raised |-> TRUE, cls |-> "ValueError",
          error |-> HTTPException(0, <<"Invalid IPv6 URL">>),
          video_id |-> None]
    ELSE IF ~Truthy(r.value)
    THEN [raised |-> TRUE, cls |-> "HTTPException",
          error |-> HTTPException(400, <<"Invalid YouTube URL">>),
          video_id |-> r.value]
    ELSE [raised |-> FALSE, cls |-> "", error |-> NoResponse,
          video_id |-> r.value]

\* lines 102-103, the except clause, given what the try block did
Except(t) ==
    IF t.raised /\ IsException(t.cls)
    THEN [ok |-> FALSE, video_id |-> t.video_id, error |->
          HTTPException(400, <<"Error getting video ID from URL">>)]
    ELSE IF t.raised
    THEN [ok |-> FALSE, video_id |-> t.video_id, error |-> t.error]
    ELSE [ok |-> TRUE, video_id |-> t.video_id, error |-> NoResponse]

\* lines 95-103: [ok, error, video_id], the identifier or the HTTPException
resolve_video_id(u) ==
    IF u = <<>>
    THEN [ok |-> FALSE, error |-> HTTPException(400, <<"No URL provided">>),
          video_id |-> None]
    ELSE CHOOSE x \in {Except(t) : t \in
                {TryExtract(r) : r \in {get_youtube_video_id(u)}}} : TRUE

(* ------------------------------ video data ----------------------------- *)
MetadataFields == {"title", "author_name", "author_url", "type", "height",
                   "width", "version", "provider_name", "provider_url",
                   "thumbnail_url"}

\* the value the oEmbed provider gives a field (a JSON literal)
FieldValue(f) ==
    CASE f = "height" -> "113"
      [] f = "width" -> "200"
      [] f = "type" -> "video"
      [] f = "version" -> "1.0"
      [] f = "provider_name" -> "YouTube"
      [] OTHER -> "text"

\* dict.get(key): None when the key is absent
DictGet(d, k) == IF k \in DOMAIN d THEN Some(d[k]) ELSE None

\* params["url"] of line 106
WatchUrl(id) ==
    <<"https", ":", "/", "/", "www.youtube.com", "/", "watch", "?", "v", "=">>
        \o id

\* lines 112-126: decode and project the body; [raised, exc, value]
project_video_data(body) ==
    IF body.kind = "not_json"
    THEN [raised |-> TRUE, value |-> <<>>, exc |->
          Exc("JSONDecodeError", "Expecting value: line 1 column 1 (char 0)")]
    ELSE IF body.kind = "array"
    THEN [raised |-> TRUE, value |-> <<>>, exc |->
          Exc("AttributeError", "'list' object has no attribute 'get'")]
    ELSE [raised |-> FALSE, exc |-> Exc("", ""),
          value |-> [f \in MetadataFields |-> DictGet(body.json, f)]]

\* line 128
video_data_error(e) ==
    HTTPException(500, <<"Error getting video data: ", e.msg>>)

\* lines 61-71, 182: the response model; every field is required and not
\* Optional, so a None fails the validation of the returned value and the
\* framework answers 500
VideoMetadataValid(data) == \A f \in MetadataFields : data[f].some

InternalServerError == HTTPException(500, <<"Internal Server Error">>)

\* lines 127-128 and 180-202, given what lines 112-126 did
VideoDataResponse(p) ==
    IF p.raised /\ IsException(p.exc.cls) THEN video_data_error(p.exc)
    ELSE IF VideoMetadataValid(p.value) THEN Success(p.value)
    ELSE InternalServerError

\* lines 105-128 after the call returned a body, then lines 180-202
video_data_finish(body) ==
    CHOOSE x \in {VideoDataResponse(p) : p \in {project_video_data(body)}} : TRUE

(* ------------------------------- captions ------------------------------ *)
\* lines 144-148: the languages argument of get_transcript; None stands for
\* the argument not being passed
caption_languages(languages) ==
    IF Truthy(languages) THEN languages ELSE None

\* a default applied only to an omitted list
timestamp_languages_none_only(languages) ==
    IF languages.some THEN languages ELSE Some(<<"en">>)

\* line 170: languages or ["en"]
timestamp_languages(languages) ==
    IF Truthy(languages) THEN languages ELSE Some(<<"en">>)

\* "".join(texts)
RECURSIVE Join_no_separator(_)
Join_no_separator(texts) ==
    IF texts = <<>> THEN <<>>
    ELSE texts[1] \o Join_no_separator(Tail(texts))

\* " ".join(texts)
RECURSIVE Join(_)
Join(texts) ==
    IF texts = <<>> THEN <<>>
    ELSE IF Len(texts) = 1 THEN texts[1]
    ELSE texts[1] \o <<" ">> \o Join(Tail(texts))

\* an error that hides its cause
captions_error_generic(e) ==
    HTTPException(500, <<"Error getting captions for video">>)

\* line 154
captions_error(e) ==
    HTTPException(500, <<"Error getting captions for video: ", e.msg>>)

\* lines 150-154
captions_finish(captions) ==
    IF \E i \in 1..Len(captions) : ~captions[i].has_text
    THEN captions_error(Exc("KeyError", "'text'"))
    ELSE IF captions # <<>>
    THEN Success(Join([i \in 1..Len(captions) |-> captions[i].text]))
    ELSE Success(<<"No captions found for video">>)

(* ------------------------------ timestamps ----------------------------- *)
SecondsPerMinute == 60

\* int(x) of a non-negative float held in tenths of a second
int(start) == start \div 10

Digit(d) ==
    CASE d = 0 -> "0" [] d = 1 -> "1" [] d = 2 -> "2" [] d = 3 -> "3"
      [] d = 4 -> "4" [] d = 5 -> "5" [] d = 6 -> "6" [] d = 7 -> "7"
      [] d = 8 -> "8" [] d = 9 -> "9"

\* format(n, "d"): the decimal digits of a non-negative integer
RECURSIVE Dec(_)
Dec(n) == IF n < 10 THEN <<Digit(n)>> ELSE Dec(n \div 10) \o <<Digit(n % 10)>>

\* format(n, "d") used for the seconds
Dec02_unpadded(n) == Dec(n)

\* format(n, "02d")
Dec02(n) == IF Len(Dec(n)) < 2 THEN <<"0">> \o Dec(n) ELSE Dec(n)

\* lines 173-175
format_timestamp(line) ==
    LET start   == int(line.start)
        minutes == start \div SecondsPerMinute
        seconds == start % SecondsPerMinute
    IN  Dec(minutes) \o <<":">> \o Dec02(seconds) \o <<" ", "-", " ">>
            \o line.text

\* line 178
timestamps_error(e) ==
    HTTPException(500, <<"Error generating timestamps: ", e.msg>>)

\* lines 171-178
RECURSIVE timestamps_loop(_)
timestamps_loop(captions) ==
    IF captions = <<>> THEN [raised |-> FALSE, exc |-> Exc("", ""), value |-> <<>>]
    ELSE LET line == Head(captions)
             rest == timestamps_loop(Tail(captions))
         IN  IF ~line.has_start
             THEN [raised |-> TRUE, exc |-> Exc("KeyError", "'start'"), value |-> <<>>]
             ELSE IF ~line.has_text
             THEN [raised |-> TRUE, exc |-> Exc("KeyError", "'text'"), value |-> <<>>]
             ELSE IF rest.raised THEN rest
             ELSE [rest EXCEPT !.value = <<format_timestamp(line)>> \o @]

\* lines 176-178, given what the loop did
TimestampsResponse(r) ==
    IF r.raised /\ IsException(r.exc.cls) THEN timestamps_error(r.exc)
    ELSE Success(r.value)

timestamps_finish(captions) ==
    CHOOSE x \in {TimestampsResponse(r) : r \in {timestamps_loop(captions)}} : TRUE

(* --------------------------- external outcomes ------------------------- *)
LanguageInputs == {None, Some(<<>>), Some(<<"de", "en">>)}

FullJson == [f \in MetadataFields |-> FieldValue(f)]
Restrict(d, S) == [f \in S |-> d[f]]

OEmbedBodies ==
    {[kind |-> "not_json", json |-> Restrict(FullJson, {})],
     [kind |-> "array", json |-> Restrict(FullJson, {})],
     [kind |-> "object", json |-> FullJson],
     [kind |-> "object", json |-> Restrict(FullJson, {})]}
    \cup {[kind |-> "object", json |-> Restrict(FullJson, MetadataFields \ {f})] :
            f \in MetadataFields}

OEmbedErrors ==
    {Exc("URLError", "<urlopen error [Errno -2] Name or service not known>"),
     Exc("HTTPError", "HTTP Error 404: Not Found")}

TranscriptErrors ==
    {Exc("TranscriptsDisabled", "Subtitles are disabled for this video"),
     Exc("NoTranscriptFound", "No transcripts were found"),
     Exc("URLError", "<urlopen error timed out>")}

Line(start, text) ==
    [has_start |-> TRUE, start |-> start, has_text |-> TRUE, text |-> text]

\* start offsets are in tenths of a second
Lines == {Line(0, <<"Hello">>), Line(50, <<"a", " ", "b">>),
          Line(629, <<"world">>), Line(650, <<>>), Line(1250, <<"Hello">>),
          Line(6000, <<"world">>), Line(36659, <<"x">>),
          [Line(10, <<"x">>) EXCEPT !.has_start = FALSE]}

RECURSIVE SeqsUpTo(_, _)
SeqsUpTo(S, n) ==
    IF n = 0 THEN {<<>>}
    ELSE SeqsUpTo(S, n - 1) \cup
         {Append(s, x) : s \in {t \in SeqsUpTo(S, n - 1) : Len(t) = n - 1}, x \in S}

CaptionTracks == SeqsUpTo(Lines, MaxLines)

(* ------------------------------- the state ----------------------------- *)
VARIABLES
    pc,         \* "idle", "resolved", "awaiting", "done": where the request is
    op,         \* "data", "captions", "timestamps"
    url,        \* request.url
    languages,  \* the languages argument of the operation
    video_id,   \* the local video_id
    calls,      \* the outbound calls made for this request, in order
    upstream,   \* what the outbound call produced
    response    \* what the client gets

vars == <<pc, op, url, languages, video_id, calls, upstream, response>>

NoUpstream == [kind |-> "none", exc |-> Exc("", ""), data |-> <<>>]

Init ==
    /\ pc = "idle"
    /\ op = ""
    /\ url = <<>>
    /\ languages = None
    /\ video_id = None
    /\ calls = <<>>
    /\ upstream = NoUpstream
    /\ response = NoResponse

\* a request enters an operation, which runs up to its outbound call
Start(o, u, l) ==
    \E r \in {resolve_video_id(u)} :
        /\ pc = "idle"
        /\ op' = o
        /\ url' = u
        /\ languages' = l
        /\ video_id' = r.video_id
        /\ pc' = IF r.ok THEN "resolved" ELSE "done"
        /\ response' = IF r.ok THEN NoResponse ELSE r.error
        /\ UNCHANGED <<calls, upstream>>

\* line 202 and lines 93-103
get_video_data ==
    /\ pc = "idle"
    /\ \E u \in RequestUrls : Start("data", u, None)

\* line 223 and lines 131-141
get_video_captions ==
    /\ pc = "idle"
    /\ \E u \in RequestUrls, l \in LanguageInputs : Start("captions", u, l)

\* line 243 and lines 157-167
get_video_timestamps ==
    /\ pc = "idle"
    /\ \E u \in RequestUrls, l \in LanguageInputs : Start("timestamps", u, l)

Call(c) ==
    /\ pc = "resolved"
    /\ calls' = Append(calls, c)
    /\ pc' = "awaiting"
    /\ UNCHANGED <<op, url, languages, video_id, upstream, response>>

\* lines 106-111: urlopen of the oEmbed URL
CallOEmbed ==
    /\ op = "data"
    /\ Call([target |-> "oembed", video_id |-> video_id.val,
             url |-> WatchUrl(video_id.val), languages |-> None])

\* lines 145-148
CallTranscriptForCaptions ==
    /\ op = "captions"
    /\ Call([target |-> "transcript", video_id |-> video_id.val,
             url |-> <<>>, languages |-> caption_languages(languages)])

\* line 170
CallTranscriptForTimestamps ==
    /\ op = "timestamps"
    /\ Call([target |-> "transcript", video_id |-> video_id.val,
             url |-> <<>>, languages |-> timestamp_languages(languages)])

Finish(u, r) ==
    /\ pc = "awaiting"
    /\ upstream' = u
    /\ response' = r
    /\ pc' = "done"
    /\ UNCHANGED <<op, url, languages, video_id, calls>>

\* urlopen raises: lines 127-128
OEmbedRaises ==
    /\ pc = "awaiting" /\ op = "data"
    /\ \E e \in OEmbedErrors :
        Finish([kind |-> "raise", exc |-> e, data |-> <<>>], video_data_error(e))

\* urlopen returns a body: lines 112-128
OEmbedReturns ==
    /\ pc = "awaiting" /\ op = "data"
    /\ \E b \in OEmbedBodies :
        Finish([kind |-> "body", exc |-> Exc("", ""), data |-> b],
               video_data_finish(b))

\* get_transcript raises: lines 153-154
CaptionsRaise ==
    /\ pc = "awaiting" /\ op = "captions"
    /\ \E e \in TranscriptErrors :
        Finish([kind |-> "raise", exc |-> e, data |-> <<>>], captions_error(e))

\* a handler that tries the call again after a failure
TimestampsRaise_retry ==
    /\ pc = "awaiting" /\ op = "timestamps"
    /\ \E e \in TranscriptErrors :
        /\ upstream' = [kind |-> "raise", exc |-> e, data |-> <<>>]
        /\ pc' = "resolved"
        /\ UNCHANGED <<op, url, languages, video_id, calls, response>>

\* get_transcript raises: lines 177-178
TimestampsRaise ==
    /\ pc = "awaiting" /\ op = "timestamps"
    /\ \E e \in TranscriptErrors :
        Finish([kind |-> "raise", exc |-> e, data |-> <<>>], timestamps_error(e))

\* get_transcript returns: lines 150-152
CaptionsReturn ==
    /\ pc = "awaiting" /\ op = "captions"
    /\ \E c \in CaptionTracks :
        Finish([kind |-> "captions", exc |-> Exc("", ""), data |-> c],
               captions_finish(c))

\* get_transcript returns: lines 171-176
TimestampsReturn ==
    /\ pc = "awaiting" /\ op = "timestamps"
    /\ \E c \in CaptionTracks :
        Finish([kind |-> "captions", exc |-> Exc("", ""), data |-> c],
               timestamps_finish(c))

\* the response is sent; nothing of the request is kept
Deliver ==
    /\ pc = "done"
    /\ pc' = "idle"
    /\ op' = ""
    /\ url' = <<>>
    /\ languages' = None
    /\ video_id' = None
    /\ calls' = <<>>
    /\ upstream' = NoUpstream
    /\ response' = NoResponse

Next ==
    \/ get_video_data
    \/ get_video_captions
    \/ get_video_timestamps
    \/ CallOEmbed
    \/ CallTranscriptForCaptions
    \/ CallTranscriptForTimestamps
    \/ OEmbedRaises
    \/ OEmbedReturns
    \/ CaptionsRaise
    \/ TimestampsRaise
    \/ CaptionsReturn
    \/ TimestampsReturn
    \/ Deliver

Spec == Init /\ [][Next]_vars

(* ------------------- the extraction applied on its own ------------------ *)
\* get_youtube_video_id(u), lines 75-90, for a URL of Urls
Extract ==
    /\ pc = "idle"
    /\ \E u \in Urls : \E r \in {get_youtube_video_id(u)} :
            /\ url' = u
            /\ video_id' = r.value
            /\ pc' = IF r.raises THEN "raised" ELSE "returned"
    /\ UNCHANGED <<op, languages, calls, upstream, response>>

\* the result is dropped
Forget ==
    /\ pc \in {"raised", "returned"}
    /\ pc' = "idle"
    /\ url' = <<>>
    /\ video_id' = None
    /\ UNCHANGED <<op, languages, calls, upstream, response>>

NextExtract == Extract \/ Forget

SpecExtract == Init /\ [][NextExtract]_vars

(* ================================ claims =============================== *)
Https == <<"https", ":", "/", "/">>
TheId == "dQw4w9WgXcQ"

\* the URLs of the four shapes that carry the identifier w
ShapeUrls(w) ==
    {Https \o <<"youtu.be", "/", w>>}
    \cup {Https \o h \o t :
            h \in {<<"youtube.com">>, <<"www.youtube.com">>},
            t \in {<<"/", "watch", "?", "v", "=", w>>,
                   <<"/", "embed", "/", w>>, <<"/", "v", "/", w>>}}

\* C1: for a URL of one of the four shapes youtu.be/<id>, watch?v=<id>,
\* embed/<id>, v/<id>, the extracted identifier is exactly <id>
C1_FourShapes ==
    \A w \in Words :
        (pc = "returned" /\ url \in ShapeUrls(w)) => video_id = Some(<<w>>)

C1_Witness ==
    /\ pc = "returned"
    /\ url = Https \o <<"www.youtube.com", "/", "embed", "/", TheId>>
    /\ video_id = Some(<<TheId>>)

KnownHosts == {<<"youtu.be">>, <<"youtube.com">>, <<"www.youtube.com">>}

\* no pair of the query is named v
NoVParam(query) ==
    \A i \in 1..Len(Split(query, "&")) :
        LET pair == Split(query, "&")[i]
        IN  pair = <<>> \/ pair[1] # "v"

\* the URL is one the claim says has no identifier
NotFoundCase(u) ==
    LET p == urlparse(u)
        h == hostname(p)
    IN  \/ ~h.some
        \/ h.val \notin KnownHosts
        \/ /\ h.val \in {<<"youtube.com">>, <<"www.youtube.com">>}
           /\ \/ p.path = <<"/", "watch">> /\ NoVParam(p.query)
              \/ /\ p.path # <<"/", "watch">>
                 /\ ~StartsWith(p.path, <<"/", "embed", "/">>)
                 /\ ~StartsWith(p.path, <<"/", "v", "/">>)

\* C2: extraction returns None for every URL whose hostname is not one of
\* youtu.be, youtube.com, www.youtube.com, and for every youtube.com URL
\* whose path is /watch without a v parameter or is none of /watch,
\* /embed/..., /v/...
C2_NotFound ==
    (pc = "returned" /\ NotFoundCase(url))
        => ~video_id.some

C2_Witness ==
    /\ pc = "returned"
    /\ url = Https \o <<"m.youtube.com", "/", "watch", "?", "v", "=", TheId>>
    /\ ~video_id.some

\* the URL is empty, fails to parse, or yields no non-empty identifier
Unresolvable(u) ==
    \/ u = <<>>
    \/ get_youtube_video_id(u).raises
    \/ ~get_youtube_video_id(u).value.some
    \/ get_youtube_video_id(u).value.val = <<>>

\* C3: a request whose url is empty or does not resolve to a non-empty
\* identifier ends with status 400 and no outbound call; every outbound call
\* carries the non-empty identifier extracted before it
C3_NoCallWithoutId ==
    /\ (pc # "idle" /\ Unresolvable(url)) =>
            (pc = "done" /\ response.status = 400 /\ calls = <<>>)
    /\ \A i \in 1..Len(calls) :
            /\ video_id.some /\ video_id.val # <<>>
            /\ calls[i].video_id = video_id.val
            /\ video_id = get_youtube_video_id(url).value

C3_Witness ==
    /\ pc = "done"
    /\ op = "timestamps"
    /\ url = Https \o <<"[", "/", "watch", "?", "v", "=", TheId>>
    /\ response.status = 400
    /\ calls = <<>>

\* the message of the failure of the outbound call or of the processing of
\* its result, when there is one
FailureCause ==
    IF upstream.kind = "raise" THEN Some(upstream.exc.msg)
    ELSE IF upstream.kind = "body" /\ upstream.data.kind = "not_json"
        THEN Some("Expecting value: line 1 column 1 (char 0)")
    ELSE IF upstream.kind = "body" /\ upstream.data.kind = "array"
        THEN Some("'list' object has no attribute 'get'")
    ELSE IF /\ upstream.kind = "captions" /\ op = "timestamps"
            /\ \E i \in 1..Len(upstream.data) : ~upstream.data[i].has_start
        THEN Some("'start'")
    ELSE None

\* C4: once the URL resolved, a failure of the outbound call or of the
\* processing of its result ends the request with status 500 and a detail
\* that contains the message of the cause
C4_UpstreamFailureIs500 ==
    (pc = "done" /\ FailureCause.some) =>
        /\ response.status = 500
        /\ \E i \in 1..Len(response.detail) :
                response.detail[i] = FailureCause.val

C4_Witness ==
    /\ pc = "done"
    /\ op = "captions"
    /\ upstream.kind = "raise"
    /\ upstream.exc.cls = "TranscriptsDisabled"
    /\ response.status = 500
    /\ response.detail[2] = "Subtitles are disabled for this video"

\* C5: an oEmbed JSON object that lacks some of the ten fields gives a
\* success whose missing fields are null
C5_MissingFieldIsNull ==
    (pc = "done" /\ op = "data" /\ upstream.kind = "body"
        /\ upstream.data.kind = "object") =>
        /\ response.status = 200
        /\ \A f \in MetadataFields :
            response.body[f].some = (f \in DOMAIN upstream.data.json)

DigitChars == {"0", "1", "2", "3", "4", "5", "6", "7", "8", "9"}

DigitVal(c) ==
    CASE c = "0" -> 0 [] c = "1" -> 1 [] c = "2" -> 2 [] c = "3" -> 3
      [] c = "4" -> 4 [] c = "5" -> 5 [] c = "6" -> 6 [] c = "7" -> 7
      [] c = "8" -> 8 [] c = "9" -> 9

\* the number a non-empty sequence of digits denotes
RECURSIVE DecVal(_)
DecVal(ds) ==
    IF Len(ds) = 1 THEN DigitVal(ds[1])
    ELSE 10 * DecVal(SubSeq(ds, 1, Len(ds) - 1)) + DigitVal(ds[Len(ds)])

AllDigits(ds) == ds # <<>> /\ \A i \in 1..Len(ds) : ds[i] \in DigitChars

\* e reads "<m>:<SS> - <text>" with 60 * m + SS the whole seconds of line
EntryOk(e, line) ==
    LET n == CHOOSE k \in 0..line.start :
                10 * k <= line.start /\ line.start < 10 * (k + 1)
        c == Find(e, ":")
        m == SubSeq(e, 1, c - 1)
        ss == SubSeq(e, c + 1, c + 2)
    IN  /\ c > 1
        /\ Len(e) >= c + 5
        /\ AllDigits(m) /\ (Len(m) = 1 \/ m[1] # "0")
        /\ AllDigits(ss) /\ Len(ss) = 2
        /\ DecVal(ss) < 60
        /\ 60 * DecVal(m) + DecVal(ss) = n
        /\ SubSeq(e, c + 3, c + 5) = <<" ", "-", " ">>
        /\ From(e, c + 5) = line.text
        /\ (n = 5 => SubSeq(e, 1, 4) = <<"0", ":", "0", "5">>)
        /\ (n = 65 => SubSeq(e, 1, 4) = <<"1", ":", "0", "5">>)
        /\ (n = 125 => SubSeq(e, 1, 4) = <<"2", ":", "0", "5">>)

WellFormed(track) ==
    \A i \in 1..Len(track) : track[i].has_start /\ track[i].has_text

RECURSIVE Offset(_, _)
Offset(track, i) ==
    IF i = 1 THEN 0
    ELSE Offset(track, i - 1) + Len(track[i - 1].text) + 1

\* b is the texts of track in order with one space between neighbours
JoinedOk(b, track) ==
    LET n == Len(track)
    IN  /\ Len(b) = Offset(track, n) + Len(track[n].text)
        /\ \A i \in 1..n :
            /\ SubSeq(b, Offset(track, i) + 1,
                      Offset(track, i) + Len(track[i].text)) = track[i].text
            /\ i < n => b[Offset(track, i) + Len(track[i].text) + 1] = " "

\* C7: the captions operation returns the texts of the caption lines in
\* order joined by one space, and "No captions found for video" when there
\* is no line
C7_CaptionsJoined ==
    (pc = "done" /\ op = "captions" /\ upstream.kind = "captions"
        /\ \A i \in 1..Len(upstream.data) : upstream.data[i].has_text) =>
        /\ response.status = 200
        /\ IF upstream.data = <<>>
           THEN response.body = <<"No captions found for video">>
           ELSE JoinedOk(response.body, upstream.data)

C7_Witness ==
    /\ pc = "done" /\ op = "captions" /\ upstream.kind = "captions"
    /\ upstream.data = <<Line(0, <<"Hello">>), Line(629, <<"world">>)>>
    /\ response.body = <<"Hello", " ", "world">>

\* C8: a request makes at most one outbound call, and a failed call ends the
\* request in an error at once
C8_AtMostOneCall ==
    /\ Len(calls) <= 1
    /\ upstream.kind = "raise" => (pc = "done" /\ response.status >= 400)

C8_Witness ==
    /\ pc = "done" /\ op = "timestamps"
    /\ upstream.kind = "raise"
    /\ Len(calls) = 1
    /\ response.status = 500

\* C9: captions passes the caller's languages when given and no languages
\* otherwise; timestamps passes the caller's languages when given and
\* ["en"] otherwise; an omitted and an empty list are treated alike
C9_LanguageSelection ==
    \A i \in 1..Len(calls) :
        LET given == languages.some /\ Len(languages.val) > 0
        IN  /\ (op \in {"captions", "timestamps"} /\ given) =>
                    calls[i].languages = languages
            /\ (op = "captions" /\ ~given) => ~calls[i].languages.some
            /\ (op = "timestamps" /\ ~given) =>
                    calls[i].languages = Some(<<"en">>)

C9_Witness ==
    /\ op = "timestamps"
    /\ languages = Some(<<>>)
    /\ Len(calls) = 1
    /\ calls[1].languages = Some(<<"en">>)

\* C10: a 400 says "No URL provided" for an empty URL, "Invalid YouTube URL"
\* for a URL that parses but has no identifier, and "Error getting video ID
\* from URL" only when the extraction raised
C10_Details ==
    (pc = "done" /\ response.status = 400) =>
        /\ url = <<>> => response.detail = <<"No URL provided">>
        /\ (url # <<>> /\ ~get_youtube_video_id(url).raises) =>
                response.detail = <<"Invalid YouTube URL">>
        /\ response.detail = <<"Error getting video ID from URL">> =>
                get_youtube_video_id(url).raises
====
